---------------------------- MODULE Spec2Model ----------------------------
(***************************************************************************)
(* The word-quiz flashcard application, in its three versions:             *)
(*   "simple"  src/unnamed/part_000  immediate index change                *)
(*   "gated"   src/unnamed/part_001  index change gated on transitionend   *)
(*   "cache"   src/src/App.jsx       per-day shuffle cache (useMemo)       *)
(* A state is the component's React state after a render, together with    *)
(* the localStorage entry and, for the gated version, the card element's   *)
(* running CSS transition and its transitionend listener.                  *)
(*                                                                         *)
(* JavaScript arrays are sequences; JavaScript index k is position k+1.    *)
(* A word record is a positive integer: two records are structurally      *)
(* equal exactly when the integers are equal.                              *)
(***************************************************************************)
EXTENDS Integers, Sequences, FiniteSets, TLC

VARIABLES
  variant,        \* which version of the component runs
  words,          \* useState([])       the corpus
  totalDays,      \* useState(0)
  isLoading,      \* useState(true)
  error,          \* useState('')
  currentDay,     \* useState(1)
  currentIndex,   \* useState(0)
  isFlipped,      \* useState(false)
  mode,           \* useState('ko-to-en')
  confusingWords, \* useState([])
  showConfusing,  \* useState(false)
  viewMode,       \* useState('card')
  hiddenAnswers,  \* useState(new Set())
  pendingIndex,   \* useState(null)     gated version only
  daySlices,      \* useMemo value      cache version only
  storage,        \* localStorage entry 'confusingWords'
  inFlight,       \* a transform transition is running on the card element
  listening,      \* handleTransitionEnd is attached to the mounted card element
  acceptIndex,    \* history: currentIndex when the pending advance was accepted
  fnArg,          \* inputs of the day partitioner, drawn by InitSlices
  fnOut           \* its outputs

vars == <<variant, words, totalDays, isLoading, error, currentDay, currentIndex,
          isFlipped, mode, confusingWords, showConfusing, viewMode, hiddenAnswers,
          pendingIndex, daySlices, storage, inFlight, listening, acceptIndex,
          fnArg, fnOut>>

(***************************************************************************)
(* Bounds and program constants.                                           *)
(***************************************************************************)
\* The page size of the source: 100 records per day.
PageSize == 100

\* The session specification pages the corpus by Page records instead of
\* PageSize, so that every order a shuffle can produce is enumerated.
Page == 2

\* Longest corpus of the session specification.
MaxWords == 3

\* Longest confusing set of the session specification.
MaxConfusing == 2

\* Longest corpus given to the day partitioner (SpecSlices).
MaxCorpus == 250

\* The day partitioner is applied to the days -MaxDayArg .. MaxDayArg.
MaxDayArg == 4

\* Longest array given to shuffleArray (SpecShuffle).
MaxShuffle == 5

\* Longest cell text given to the cleaning (SpecClean).
MaxCell == 2

\* useState(null): no pending index; a pending index k is <<k>>.
Null == <<>>

Variants == {"simple", "gated", "cache"}

\* The corpus of n records, in file order.
Corpus(n) == [i \in 1..n |-> i]

(***************************************************************************)
(* JavaScript helpers.                                                     *)
(***************************************************************************)
Max(a, b) == IF a >= b THEN a ELSE b
Min(a, b) == IF a <= b THEN a ELSE b

\* A slice that clamps a negative argument to 0.
JsSliceMut(a, start, end) ==
  LET len == Len(a)
      k   == Min(Max(start, 0), len)
      fin == Min(Max(end, 0), len)
  IN  [i \in 1..Max(fin - k, 0) |-> a[k + i]]

\* Array.prototype.slice(start, end): a negative argument counts from the end.
JsSlice(a, start, end) ==
  LET len == Len(a)
      k   == IF start < 0 THEN Max(len + start, 0) ELSE Min(start, len)
      fin == IF end < 0 THEN Max(len + end, 0) ELSE Min(end, len)
  IN  [i \in 1..Max(fin - k, 0) |-> a[k + i]]

\* Math.floor in place of Math.ceil.
CeilDivMut(n, d) == n \div d

\* Math.ceil(n / d) for integers n >= 0, d > 0.
CeilDiv(n, d) == IF n % d = 0 THEN n \div d ELSE (n \div d) + 1

\* An assignment a[i] = a[j] in place of the exchange.
SwapMut(a, i, j) == [a EXCEPT ![i + 1] = a[j + 1]]

\* [a[i], a[j]] = [a[j], a[i]] with JavaScript indices i, j.
Swap(a, i, j) == [a EXCEPT ![i + 1] = a[j + 1], ![j + 1] = a[i + 1]]

\* shuffleArray: Fisher-Yates from i = length-1 down to 1, j drawn in 0..i.
\* The set of the arrays that the draws of Math.random can produce.
RECURSIVE FisherYates(_, _)
FisherYates(a, i) ==
  IF i <= 0 THEN {a}
  ELSE UNION {FisherYates(Swap(a, i, j), i - 1) : j \in 0..i}

shuffleArray(arr) == FisherYates(arr, Len(arr) - 1)

\* The draws of one call on n elements: j = Math.floor(Math.random() * (i + 1))
\* is in 0..i, for i = n-1 down to 1.
Draws(n) == {d \in [1..(n - 1) -> 0..(n - 1)] : \A i \in 1..(n - 1) : d[i] <= i}

\* shuffleArray with its draws given: d[i] is the j drawn at index i.
RECURSIVE ShuffleFrom(_, _, _)
ShuffleFrom(a, i, d) ==
  IF i <= 0 THEN a ELSE ShuffleFrom(Swap(a, i, d[i]), i - 1, d)

ShuffleWith(arr, d) == ShuffleFrom(arr, Len(arr) - 1, d)

\* A slice that runs one record into the next day.
DaySliceOfMut(w, day, ps) == JsSlice(w, (day - 1) * ps, day * ps + 1)

\* words.slice(start, start + ps) with start = (day - 1) * ps.
DaySliceOf(w, day, ps) ==
  LET start == (day - 1) * ps
  IN  JsSlice(w, start, start + ps)

\* A removal that drops the last record, whatever the index.
RemoveAtMut(a, k) == SubSeq(a, 1, Len(a) - 1)

\* a.filter((_, i) => i !== k) with JavaScript index k.
RemoveAt(a, k) ==
  [i \in 1..(IF k >= 0 /\ k < Len(a) THEN Len(a) - 1 ELSE Len(a)) |->
      IF k >= 0 /\ k < Len(a) /\ i > k THEN a[i + 1] ELSE a[i]]

\* a.some((w) => JSON.stringify(w) === JSON.stringify(x))
Some(a, x) == \E i \in 1..Len(a) : a[i] = x

(***************************************************************************)
(* Derived values of a render.                                             *)
(***************************************************************************)
\* const [..] = useState(..): the screen past the loading and error returns.
Ready == ~isLoading /\ error = ""

\* JSON.stringify(list) as written by localStorage.setItem.
Stringify(list) == [kind |-> "json", val |-> list]

\* localStorage.getItem returned null: the entry is absent.
NoEntry == [kind |-> "absent", val |-> <<>>]

\* The useMemo value before the corpus is loaded, and of the versions
\* without a cache.
NoSlices == [ordered |-> <<>>, shuffled |-> <<>>]

\* getCurrentWords of the simple and the gated version.
getCurrentWords ==
  IF showConfusing THEN confusingWords ELSE DaySliceOf(words, currentDay, Page)

\* currentWords of the cache version.
cachedCurrentWords ==
  IF showConfusing THEN confusingWords
  ELSE IF viewMode = "card" THEN daySlices.shuffled ELSE daySlices.ordered

currentWords == IF variant = "cache" THEN cachedCurrentWords ELSE getCurrentWords

\* currentWords[currentIndex] is defined.
HasCurrentWord == currentIndex >= 0 /\ currentIndex < Len(currentWords)

currentWord == currentWords[currentIndex + 1]

\* The card element (ref={cardRef} in the gated version) is in the document.
CardMounted == Ready /\ viewMode = "card" /\ Len(currentWords) > 0

\* A dependency list that also names showConfusing.
MemoDepsMode == <<words, currentDay, showConfusing>>

\* A dependency list without currentDay.
MemoDepsDayless == <<words>>

\* A dependency list that also names viewMode.
MemoDepsMut == <<words, currentDay, viewMode>>

\* The dependency list of useMemo: [words, currentDay].
MemoDeps == <<words, currentDay>>

\* A memo whose shuffle works in place on the ordered slice.
daySlicesAfterMut ==
  IF variant = "cache" /\ MemoDeps' # MemoDeps
  THEN LET ordered == DaySliceOf(words', currentDay', Page)
       IN  {[ordered |-> s, shuffled |-> s] : s \in shuffleArray(ordered)}
  ELSE {daySlices}

\* The values useMemo may hold after the render that follows a handler.
daySlicesAfter ==
  IF variant = "cache" /\ MemoDeps' # MemoDeps
  THEN LET ordered == DaySliceOf(words', currentDay', Page)
       IN  {[ordered |-> ordered, shuffled |-> s] : s \in shuffleArray(ordered)}
  ELSE {daySlices}

\* What the browser holds after the render and its effects: the card's
\* transition runs on while the element stays mounted, and starts when the
\* rotate-y-180 class changes; the effect with deps [pendingIndex] attaches
\* handleTransitionEnd to the element mounted at the time it runs.
Effects(running) ==
  /\ inFlight' = (variant = "gated" /\ CardMounted /\ CardMounted'
                    /\ (isFlipped' # isFlipped \/ running))
  /\ listening' = (variant = "gated" /\ CardMounted'
                    /\ (pendingIndex' # pendingIndex \/ (CardMounted /\ listening)))

\* The render after a handler ran.
Rendered(running) ==
  /\ UNCHANGED <<variant, fnArg, fnOut>>
  /\ daySlices' \in daySlicesAfter
  /\ Effects(running)

data == <<words, totalDays, isLoading, error>>
nav  == <<currentIndex, isFlipped, pendingIndex, acceptIndex>>
sel  == <<currentDay, showConfusing, hiddenAnswers>>
pres == <<viewMode, mode>>
conf == <<confusingWords, storage>>
session == <<nav, sel, pres, conf>>

(***************************************************************************)
(* Handlers: what each sets in the component's state.                      *)
(***************************************************************************)
\* A flip that also drops the pending index.
flipCardMut ==
  /\ isFlipped' = ~isFlipped
  /\ pendingIndex' = Null
  /\ UNCHANGED <<currentIndex, acceptIndex, sel, pres, conf>>

\* const flipCard = () => setIsFlipped(!isFlipped)
flipCard ==
  /\ isFlipped' = ~isFlipped
  /\ UNCHANGED <<currentIndex, pendingIndex, acceptIndex, sel, pres, conf>>

\* nextWord with <= for < in its guard.
nextWordMut ==
  IF currentIndex <= Len(currentWords) - 1
  THEN /\ isFlipped' = FALSE
       /\ currentIndex' = currentIndex + 1
       /\ UNCHANGED <<pendingIndex, acceptIndex, sel, pres, conf>>
  ELSE UNCHANGED session

\* nextWord of the cache and the simple version.
nextWord ==
  IF currentIndex < Len(currentWords) - 1
  THEN /\ isFlipped' = FALSE
       /\ currentIndex' = currentIndex + 1
       /\ UNCHANGED <<pendingIndex, acceptIndex, sel, pres, conf>>
  ELSE UNCHANGED session

\* prevWord of the cache and the simple version.
prevWord ==
  IF currentIndex > 0
  THEN /\ isFlipped' = FALSE
       /\ currentIndex' = currentIndex - 1
       /\ UNCHANGED <<pendingIndex, acceptIndex, sel, pres, conf>>
  ELSE UNCHANGED session

\* goToWord without its pendingIndex guard.
goToWordMut(newIdx) ==
  /\ isFlipped' = TRUE
  /\ pendingIndex' = <<newIdx>>
  /\ acceptIndex' = <<currentIndex>>
  /\ UNCHANGED <<currentIndex, sel, pres, conf>>

\* goToWord of the gated version: rejected while an index is pending.
goToWord(newIdx) ==
  IF pendingIndex # Null
  THEN UNCHANGED session
  ELSE /\ isFlipped' = TRUE
       /\ pendingIndex' = <<newIdx>>
       /\ acceptIndex' = <<currentIndex>>
       /\ UNCHANGED <<currentIndex, sel, pres, conf>>

\* nextWord of the gated version.
nextWordGated ==
  IF currentIndex < Len(currentWords) - 1
  THEN goToWord(currentIndex + 1)
  ELSE UNCHANGED session

\* prevWord of the gated version.
prevWordGated ==
  IF currentIndex > 0
  THEN goToWord(currentIndex - 1)
  ELSE UNCHANGED session

\* handleTransitionEnd that turns the card to its front with or without a
\* pending index.
handleTransitionEndAlways ==
  IF pendingIndex # Null
  THEN /\ currentIndex' = pendingIndex[1]
       /\ isFlipped' = FALSE
       /\ pendingIndex' = Null
       /\ acceptIndex' = Null
       /\ UNCHANGED <<sel, pres, conf>>
  ELSE /\ isFlipped' = FALSE
       /\ UNCHANGED <<currentIndex, pendingIndex, acceptIndex, sel, pres, conf>>

\* handleTransitionEnd that steps forward instead of committing pendingIndex.
handleTransitionEndMut ==
  IF pendingIndex # Null
  THEN /\ currentIndex' = currentIndex + 1
       /\ isFlipped' = FALSE
       /\ pendingIndex' = Null
       /\ acceptIndex' = Null
       /\ UNCHANGED <<sel, pres, conf>>
  ELSE UNCHANGED session

\* handleTransitionEnd: commits the pending index.
handleTransitionEnd ==
  IF pendingIndex # Null
  THEN /\ currentIndex' = pendingIndex[1]
       /\ isFlipped' = FALSE
       /\ pendingIndex' = Null
       /\ acceptIndex' = Null
       /\ UNCHANGED <<sel, pres, conf>>
  ELSE UNCHANGED session

\* addToConfusing without the exists test: it always appends.
addToConfusingMut ==
  IF ~HasCurrentWord
  THEN UNCHANGED session
  ELSE LET updated == Append(confusingWords, currentWord)
       IN  /\ confusingWords' = updated
           /\ storage' = Stringify(updated)
           /\ UNCHANGED <<nav, sel, pres>>

addToConfusing ==
  IF ~HasCurrentWord \/ Some(confusingWords, currentWord)
  THEN UNCHANGED session
  ELSE LET updated == Append(confusingWords, currentWord)
       IN  /\ confusingWords' = updated
           /\ storage' = Stringify(updated)
           /\ UNCHANGED <<nav, sel, pres>>

\* removeFromConfusing that saves the list as it was before the removal.
removeFromConfusingStale ==
  LET updated == RemoveAt(confusingWords, currentIndex)
  IN  /\ confusingWords' = updated
      /\ storage' = Stringify(confusingWords)
      /\ currentIndex' = IF currentIndex >= Len(updated) /\ Len(updated) > 0
                         THEN Len(updated) - 1
                         ELSE currentIndex
      /\ isFlipped' = FALSE
      /\ UNCHANGED <<pendingIndex, acceptIndex, sel, pres>>

\* removeFromConfusing that goes back to position 0 instead of the last one.
removeFromConfusingReset ==
  LET updated == RemoveAt(confusingWords, currentIndex)
  IN  /\ confusingWords' = updated
      /\ storage' = Stringify(updated)
      /\ currentIndex' = IF currentIndex >= Len(updated) /\ Len(updated) > 0
                         THEN 0
                         ELSE currentIndex
      /\ isFlipped' = FALSE
      /\ UNCHANGED <<pendingIndex, acceptIndex, sel, pres>>

\* removeFromConfusing without the clamp of currentIndex.
removeFromConfusingMut ==
  LET updated == RemoveAt(confusingWords, currentIndex)
  IN  /\ confusingWords' = updated
      /\ storage' = Stringify(updated)
      /\ isFlipped' = FALSE
      /\ UNCHANGED <<currentIndex, pendingIndex, acceptIndex, sel, pres>>

removeFromConfusing ==
  LET updated == RemoveAt(confusingWords, currentIndex)
  IN  /\ confusingWords' = updated
      /\ storage' = Stringify(updated)
      /\ currentIndex' = IF currentIndex >= Len(updated) /\ Len(updated) > 0
                         THEN Len(updated) - 1
                         ELSE currentIndex
      /\ isFlipped' = FALSE
      /\ UNCHANGED <<pendingIndex, acceptIndex, sel, pres>>

\* changeDay that keeps the position on the card.
changeDayMut(day) ==
  /\ currentDay' = day
  /\ isFlipped' = FALSE
  /\ showConfusing' = FALSE
  /\ hiddenAnswers' = {}
  /\ UNCHANGED <<currentIndex, pendingIndex, acceptIndex, pres, conf>>

changeDay(day) ==
  /\ currentDay' = day
  /\ currentIndex' = 0
  /\ isFlipped' = FALSE
  /\ showConfusing' = FALSE
  /\ hiddenAnswers' = {}
  /\ UNCHANGED <<pendingIndex, acceptIndex, pres, conf>>

\* toggleConfusingMode that keeps the position on the card.
toggleConfusingModeMut ==
  /\ showConfusing' = ~showConfusing
  /\ isFlipped' = FALSE
  /\ hiddenAnswers' = {}
  /\ UNCHANGED <<currentDay, currentIndex, pendingIndex, acceptIndex, pres, conf>>

toggleConfusingMode ==
  /\ showConfusing' = ~showConfusing
  /\ currentIndex' = 0
  /\ isFlipped' = FALSE
  /\ hiddenAnswers' = {}
  /\ UNCHANGED <<currentDay, pendingIndex, acceptIndex, pres, conf>>

toggleAnswer(idx) ==
  /\ hiddenAnswers' = IF idx \in hiddenAnswers
                      THEN hiddenAnswers \ {idx}
                      ELSE hiddenAnswers \cup {idx}
  /\ UNCHANGED <<nav, currentDay, showConfusing, pres, conf>>

toggleAllAnswers ==
  /\ hiddenAnswers' = IF Cardinality(hiddenAnswers) = Len(currentWords)
                      THEN {}
                      ELSE 0..(Len(currentWords) - 1)
  /\ UNCHANGED <<nav, currentDay, showConfusing, pres, conf>>

\* A view-mode switch that goes back to the first word.
toggleViewModeMut ==
  /\ viewMode' = IF viewMode = "card" THEN "list" ELSE "card"
  /\ currentIndex' = 0
  /\ UNCHANGED <<isFlipped, pendingIndex, acceptIndex, sel, mode, conf>>

\* onClick={() => setViewMode(viewMode === 'card' ? 'list' : 'card')}
toggleViewMode ==
  /\ viewMode' = IF viewMode = "card" THEN "list" ELSE "card"
  /\ UNCHANGED <<nav, sel, mode, conf>>

\* A direction switch that also turns the card back to its front.
toggleDirectionMut ==
  /\ mode' = IF mode = "ko-to-en" THEN "en-to-ko" ELSE "ko-to-en"
  /\ isFlipped' = FALSE
  /\ UNCHANGED <<currentIndex, pendingIndex, acceptIndex, sel, viewMode, conf>>

\* onClick={() => setMode(mode === 'ko-to-en' ? 'en-to-ko' : 'ko-to-en')}
toggleDirection ==
  /\ mode' = IF mode = "ko-to-en" THEN "en-to-ko" ELSE "ko-to-en"
  /\ UNCHANGED <<nav, sel, viewMode, conf>>

(***************************************************************************)
(* Events: a handler runs when its control is rendered and enabled; the    *)
(* component then renders again.                                           *)
(***************************************************************************)
\* The card-mode block (prev / flip / next and the add / remove button).
CardView == Ready /\ viewMode = "card"

\* The list-mode block; the simple version has none.
ListView == Ready /\ viewMode = "list"

\* <button onClick={prevWord} disabled={currentIndex === 0}>
PrevEnabled == CardView /\ currentIndex # 0

\* <button onClick={nextWord} disabled={currentIndex === currentWords.length - 1}>
NextEnabled == CardView /\ currentIndex # Len(currentWords) - 1

\* A day select that is not disabled in confusing mode.
DayOptionsMut == IF Ready THEN (1..totalDays) \ {currentDay} ELSE {}

\* <select onChange={(e) => changeDay(Number(e.target.value))} disabled={showConfusing}>
\* with one option per day 1..totalDays.
DayOptions == IF Ready /\ ~showConfusing THEN (1..totalDays) \ {currentDay} ELSE {}

ClickPrev ==
  /\ PrevEnabled
  /\ IF variant = "gated" THEN prevWordGated ELSE prevWord
  /\ UNCHANGED data
  /\ Rendered(inFlight)

ClickNext ==
  /\ NextEnabled
  /\ IF variant = "gated" THEN nextWordGated ELSE nextWord
  /\ UNCHANGED data
  /\ Rendered(inFlight)

ClickFlip ==
  /\ CardView
  /\ flipCard
  /\ UNCHANGED data
  /\ Rendered(inFlight)

ClickAdd ==
  /\ CardView /\ ~showConfusing
  /\ Len(confusingWords) < MaxConfusing
  /\ addToConfusing
  /\ UNCHANGED data
  /\ Rendered(inFlight)

ClickRemove ==
  /\ CardView /\ showConfusing
  /\ removeFromConfusing
  /\ UNCHANGED data
  /\ Rendered(inFlight)

SelectDay(day) ==
  /\ day \in DayOptions
  /\ changeDay(day)
  /\ UNCHANGED data
  /\ Rendered(inFlight)

ClickConfusingMode ==
  /\ Ready
  /\ toggleConfusingMode
  /\ UNCHANGED data
  /\ Rendered(inFlight)

ClickViewMode ==
  /\ Ready /\ variant # "simple"
  /\ toggleViewMode
  /\ UNCHANGED data
  /\ Rendered(inFlight)

ClickDirection ==
  /\ Ready
  /\ toggleDirection
  /\ UNCHANGED data
  /\ Rendered(inFlight)

ClickAnswer(idx) ==
  /\ ListView
  /\ idx \in 0..(Len(currentWords) - 1)
  /\ toggleAnswer(idx)
  /\ UNCHANGED data
  /\ Rendered(inFlight)

ClickAllAnswers ==
  /\ ListView /\ Len(currentWords) > 0
  /\ toggleAllAnswers
  /\ UNCHANGED data
  /\ Rendered(inFlight)

\* The browser's transitionend on the card element: the running transition
\* is over; the listener, when attached, runs handleTransitionEnd.
TransitionEnd ==
  /\ inFlight
  /\ IF listening THEN handleTransitionEnd ELSE UNCHANGED session
  /\ UNCHANGED data
  /\ Rendered(FALSE)

\* Papa.parse complete: setWords(cleaned), setTotalDays, setIsLoading(false).
LoadComplete(n) ==
  /\ isLoading
  /\ words' = Corpus(n)
  /\ totalDays' = CeilDiv(n, Page)
  /\ isLoading' = FALSE
  /\ UNCHANGED <<error, session>>
  /\ Rendered(inFlight)

\* A catch branch without setIsLoading(false).
LoadFailedMut ==
  /\ isLoading
  /\ error' = "word.csv not found"
  /\ UNCHANGED <<words, totalDays, isLoading, session>>
  /\ Rendered(inFlight)

\* catch (e): setError(..), setIsLoading(false).
LoadFailed ==
  /\ isLoading
  /\ error' = "word.csv not found"
  /\ isLoading' = FALSE
  /\ UNCHANGED <<words, totalDays, session>>
  /\ Rendered(inFlight)

(***************************************************************************)
(* The session specification.                                              *)
(***************************************************************************)
\* The entries localStorage may hold when the component mounts.
SavedEntries == {NoEntry, Stringify(<<2, 1>>)}

\* The mount effect: if (saved) setConfusingWords(JSON.parse(saved)); an
\* absent entry leaves the initial [].
ParseSaved(saved) == IF saved.kind = "json" THEN saved.val ELSE <<>>

NoArg == [n |-> 0, day |-> 0]
NoOut == [applied |-> FALSE, totalDays |-> 0, slice |-> <<>>, slices |-> <<>>]

\* The state after the mount effects: the corpus is being fetched and the
\* saved confusing set has been read.
Mounted(v, saved) ==
  /\ variant = v
  /\ words = <<>>
  /\ totalDays = 0
  /\ isLoading = TRUE
  /\ error = ""
  /\ currentDay = 1
  /\ currentIndex = 0
  /\ isFlipped = FALSE
  /\ mode = "ko-to-en"
  /\ confusingWords = ParseSaved(saved)
  /\ showConfusing = FALSE
  /\ viewMode = "card"
  /\ hiddenAnswers = {}
  /\ pendingIndex = Null
  /\ daySlices = NoSlices
  /\ storage = saved
  /\ inFlight = FALSE
  /\ listening = FALSE
  /\ acceptIndex = Null

Init ==
  /\ \E v \in Variants, saved \in SavedEntries : Mounted(v, saved)
  /\ fnArg = NoArg
  /\ fnOut = NoOut

Next ==
  \/ \E n \in 0..MaxWords : LoadComplete(n)
  \/ LoadFailed
  \/ ClickPrev
  \/ ClickNext
  \/ ClickFlip
  \/ ClickAdd
  \/ ClickRemove
  \/ \E day \in 1..(MaxWords + 1) : SelectDay(day)
  \/ ClickConfusingMode
  \/ ClickViewMode
  \/ ClickDirection
  \/ \E idx \in 0..(MaxWords + MaxConfusing) : ClickAnswer(idx)
  \/ ClickAllAnswers
  \/ TransitionEnd

Spec == Init /\ [][Next]_vars

\* The browser delivers transitionend for every transition that runs on the
\* card: the step is taken once a transition is in flight and stays so.
SpecSignalled == Spec /\ WF_vars(TransitionEnd)

(***************************************************************************)
(* The day partitioner on its own, with the page size of the source.       *)
(***************************************************************************)
InitSlices ==
  /\ Mounted("cache", NoEntry)
  /\ fnArg \in [n : 0..MaxCorpus, day : (-MaxDayArg)..MaxDayArg]
  /\ fnOut = NoOut

\* setTotalDays(Math.ceil(cleaned.length / 100)) and words.slice(start, start + 100)
ApplyPartition ==
  /\ ~fnOut.applied
  /\ LET w    == Corpus(fnArg.n)
         days == CeilDiv(Len(w), PageSize)
     IN  fnOut' = [applied   |-> TRUE,
                   totalDays |-> days,
                   slice     |-> DaySliceOf(w, fnArg.day, PageSize),
                   slices    |-> [d \in 1..days |-> DaySliceOf(w, d, PageSize)]]
  /\ UNCHANGED <<variant, data, session, daySlices, inFlight, listening, fnArg>>

NextSlices == ApplyPartition

SpecSlices == InitSlices /\ [][NextSlices]_vars

(***************************************************************************)
(* The session over a corpus with a repeated row and a saved confusing set *)
(* of three records.                                                       *)
(***************************************************************************)
\* A cleaned corpus whose third row repeats the first.
RepeatingCorpus == <<1, 2, 1>>

\* The entries localStorage may hold at mount: none, or three distinct
\* records saved by an earlier session (the third is not in RepeatingCorpus).
SavedConfusing == {NoEntry, Stringify(<<2, 1, 3>>)}

\* complete: ({ data }) => { .. setWords(cleaned); setTotalDays(..) }
LoadRepeating ==
  /\ isLoading
  /\ words' = RepeatingCorpus
  /\ totalDays' = CeilDiv(Len(RepeatingCorpus), Page)
  /\ isLoading' = FALSE
  /\ UNCHANGED <<error, session>>
  /\ Rendered(inFlight)

InitConfusing ==
  /\ \E v \in Variants, saved \in SavedConfusing : Mounted(v, saved)
  /\ fnArg = NoArg
  /\ fnOut = NoOut

NextConfusing ==
  \/ LoadRepeating
  \/ LoadFailed
  \/ ClickPrev
  \/ ClickNext
  \/ ClickFlip
  \/ ClickAdd
  \/ ClickRemove
  \/ \E day \in 1..(MaxWords + 1) : SelectDay(day)
  \/ ClickConfusingMode
  \/ ClickViewMode
  \/ ClickDirection
  \/ \E idx \in 0..(MaxWords + MaxConfusing) : ClickAnswer(idx)
  \/ ClickAllAnswers
  \/ TransitionEnd

SpecConfusing == InitConfusing /\ [][NextConfusing]_vars

(***************************************************************************)
(* The session with the answer to fetch('/word.csv') drawn at the start.   *)
(***************************************************************************)
\* What the fetch ends with: a response, found or not found, whose body
\* Papa.parse and the cleaning turn into `rows` records, or a rejected
\* promise.  The body of a not-found response is a short message (no row)
\* or an error page (some rows).
Responses ==
  [status : {"ok"}, rows : 0..MaxWords]
    \cup [status : {"notFound"}, rows : {0, 2}]
    \cup [status : {"rejected"}, rows : {0}]

\* await fetch(..) resolved: the code reads res.text() and parses it,
\* whatever res.ok and res.status are.
FetchResolved ==
  /\ fnArg.status # "rejected"
  /\ LoadComplete(fnArg.rows)

\* await fetch(..) threw: the catch branch runs.
FetchRejected ==
  /\ fnArg.status = "rejected"
  /\ LoadFailed

InitLoad ==
  /\ \E v \in Variants : Mounted(v, NoEntry)
  /\ fnArg \in Responses
  /\ fnOut = NoOut

NextLoad ==
  \/ FetchResolved
  \/ FetchRejected
  \/ ClickPrev
  \/ ClickNext
  \/ ClickFlip
  \/ ClickAdd
  \/ ClickRemove
  \/ \E day \in 1..(MaxWords + 1) : SelectDay(day)
  \/ ClickConfusingMode
  \/ ClickViewMode
  \/ ClickDirection
  \/ \E idx \in 0..(MaxWords + MaxConfusing) : ClickAnswer(idx)
  \/ ClickAllAnswers
  \/ TransitionEnd

SpecLoad == InitLoad /\ [][NextLoad]_vars

\* The promise of fetch settles: the load step is taken once it can be.
SpecLoadLive == SpecLoad /\ WF_vars(FetchResolved \/ FetchRejected)

(***************************************************************************)
(* The cleaning of the parsed rows on its own.  A text is a sequence of    *)
(* characters; a cell is a text, null, or a number (dynamicTyping); a row  *)
(* of Papa.parse holds the cells of the header's keys, in their order.     *)
(***************************************************************************)
Chars == {" ", "a"}

\* The texts of at most n characters.
Texts(n) == UNION {[1..k -> Chars] : k \in 0..n}

NullCell == [t |-> "null", v |-> <<>>]
NumberCell == [t |-> "number", v |-> <<>>]
TextCell(str) == [t |-> "string", v |-> str]

\* The cells Papa.parse may hand over.
Cells == {TextCell(str) : str \in Texts(MaxCell)} \cup {NullCell, NumberCell}

\* The headers of the files: plain keys, padded keys, and two keys that
\* trim to the same one.
Headers == {<< <<"a">>, <<"a", "a">> >>,
            << <<" ", "a">>, <<"a", "a", " ">> >>,
            << <<"a">>, <<"a", " ">> >>}

\* String.prototype.trim.
Trim(str) ==
  LET solid == {i \in 1..Len(str) : str[i] # " "}
  IN  IF solid = {} THEN <<>>
      ELSE SubSeq(str, CHOOSE i \in solid : \A j \in solid : i <= j,
                       CHOOSE i \in solid : \A j \in solid : i >= j)

\* Object.values(row).some((v) => v !== null && v !== '')
KeepRow(row) ==
  \E i \in 1..Len(row) : row[i] # NullCell /\ row[i] # TextCell(<<>>)

\* The map callback: obj[k.trim()] = typeof row[k] === 'string' ? row[k].trim() : row[k],
\* key after key, a later key overwriting an equal earlier one.
CleanRow(header, row) ==
  LET last(key) == CHOOSE i \in 1..Len(header) :
                     /\ Trim(header[i]) = key
                     /\ \A j \in 1..Len(header) : Trim(header[j]) = key => j <= i
  IN  [key \in {Trim(header[i]) : i \in 1..Len(header)} |->
         LET cell == row[last(key)]
         IN  IF cell.t = "string" THEN TextCell(Trim(cell.v)) ELSE cell]

\* data.filter(..).map(..)
Cleaned(header, rows) ==
  LET kept == SelectSeq(rows, KeepRow)
  IN  [i \in 1..Len(kept) |-> CleanRow(header, kept[i])]

InitClean ==
  /\ Mounted("cache", NoEntry)
  /\ fnArg \in [header : Headers,
                rows   : UNION {[1..n -> [1..2 -> Cells]] : n \in 0..2}]
  /\ fnOut = NoOut

ApplyClean ==
  /\ ~fnOut.applied
  /\ fnOut' = [applied |-> TRUE, cleaned |-> Cleaned(fnArg.header, fnArg.rows)]
  /\ UNCHANGED <<variant, data, session, daySlices, inFlight, listening, fnArg>>

NextClean == ApplyClean

SpecClean == InitClean /\ [][NextClean]_vars

(***************************************************************************)
(* shuffleArray on its own: an array and the draws of one call.            *)
(***************************************************************************)
\* An array of n records in which every second record is the same.
Repeating(n) == [i \in 1..n |-> IF i % 2 = 0 THEN 1 ELSE i]

InitShuffle ==
  /\ Mounted("cache", NoEntry)
  /\ \E n \in 0..MaxShuffle : \E d \in Draws(n) :
       fnArg \in {[arr |-> Corpus(n), draws |-> d], [arr |-> Repeating(n), draws |-> d]}
  /\ fnOut = NoOut

ApplyShuffle ==
  /\ ~fnOut.applied
  /\ fnOut' = [applied |-> TRUE, out |-> ShuffleWith(fnArg.arr, fnArg.draws)]
  /\ UNCHANGED <<variant, data, session, daySlices, inFlight, listening, fnArg>>

NextShuffle == ApplyShuffle

SpecShuffle == InitShuffle /\ [][NextShuffle]_vars

(***************************************************************************)
(* Properties.                                                             *)
(***************************************************************************)
\* currentIndex is a position of the active word set, when it has one.
IndexInRange ==
  Len(currentWords) > 0 => (0 <= currentIndex /\ currentIndex < Len(currentWords))

\* C1: in the cache version, in every reachable state, a non-empty active
\* word set has 0 <= currentIndex < its length.
C1_IndexInRangeCache == variant = "cache" => IndexInRange

\* C1 witness: the cache version stands on the last word of a confusing set
\* of two words, after moving there.
C1_Witness ==
  /\ variant = "cache" /\ Ready /\ showConfusing
  /\ Len(confusingWords) = 2 /\ currentIndex = 1

\* C2: in the gated version, in every reachable state, a non-empty active
\* word set has 0 <= currentIndex < its length.
C2_IndexInRangeGated == variant = "gated" => IndexInRange

\* The advance handlers of the version that runs.
NextHandler == IF variant = "gated" THEN nextWordGated ELSE nextWord
PrevHandler == IF variant = "gated" THEN prevWordGated ELSE prevWord

\* C3: while an index is pending, nextWord and prevWord change none of
\* pendingIndex, currentIndex and isFlipped.
C3_AdvanceIgnoredWhilePending ==
  (variant = "gated" /\ pendingIndex # Null) =>
    ~ENABLED ((nextWordGated \/ prevWordGated)
               /\ <<pendingIndex, currentIndex, isFlipped>>'
                    # <<pendingIndex, currentIndex, isFlipped>>)

\* C3 witness: an index is pending while the next button is enabled and the
\* next position exists, so only the pending index rejects the request.
C3_Witness ==
  /\ variant = "gated" /\ pendingIndex # Null
  /\ NextEnabled /\ currentIndex < Len(currentWords) - 1

C5_PendingOnlyInFlight ==
  variant = "gated" => (pendingIndex # Null => inFlight)

\* The active word set the cache version resolves in card view.
CardWords == IF showConfusing THEN confusingWords ELSE daySlices.shuffled

\* C6: in the cache version a step that changes viewMode or mode, with the
\* corpus and the day fixed, leaves the shuffled order and the word set
\* resolved in card view as they were.
C6_ShuffleKeptAcrossToggles ==
  [][(/\ variant = "cache"
      /\ words' = words /\ currentDay' = currentDay
      /\ (viewMode' # viewMode \/ mode' # mode)) =>
       (daySlices'.shuffled = daySlices.shuffled /\ CardWords' = CardWords)]_vars

\* C6 witness: the list view is shown over a day whose shuffled order
\* differs from the file order.
C6_Witness ==
  /\ variant = "cache" /\ Ready /\ viewMode = "list" /\ mode = "en-to-ko"
  /\ daySlices.shuffled # daySlices.ordered

RECURSIVE Concat(_, _)
\* slices[1] \o ... \o slices[k]
Concat(slices, k) ==
  IF k = 0 THEN <<>> ELSE Concat(slices, k - 1) \o slices[k]

\* C7: every day 1..totalDays has between 1 and 100 records, and the days
\* in order make up the corpus.
C7_SlicesPartitionCorpus ==
  fnOut.applied =>
    /\ \A d \in 1..fnOut.totalDays :
         Len(fnOut.slices[d]) >= 1 /\ Len(fnOut.slices[d]) <= 100
    /\ Concat(fnOut.slices, fnOut.totalDays) = Corpus(fnArg.n)

\* C7 witness: a corpus of 250 records has been cut into 3 days.
C7_Witness ==
  fnOut.applied /\ fnArg.n = 250 /\ Len(fnOut.slices) = 3

\* The least k with 100 * k >= n.
Ceil100(n) == CHOOSE k \in 0..n : 100 * k >= n /\ (k = 0 \/ 100 * (k - 1) < n)

\* C8: totalDays is ceil(n / 100), the last day has n - 100 * (totalDays - 1)
\* records, and 250 records give 3 days with 50 records in day 3.
C8_TotalDays ==
  fnOut.applied =>
    /\ fnOut.totalDays = Ceil100(fnArg.n)
    /\ fnArg.n = 0 => fnOut.totalDays = 0
    /\ fnArg.n > 0 =>
         Len(fnOut.slices[fnOut.totalDays]) = fnArg.n - 100 * (fnOut.totalDays - 1)
    /\ fnArg.n = 250 => (fnOut.totalDays = 3 /\ Len(fnOut.slices[3]) = 50)

\* C8 witness: the partition of 250 records, whose last day is partial.
C8_Witness ==
  fnOut.applied /\ fnArg.n = 250 /\ Len(fnOut.slices[fnOut.totalDays]) = 50

\* C9 as claimed: the slice of every day outside 1..totalDays is empty.
C9_OutsideDayEmpty ==
  (fnOut.applied /\ fnArg.day \notin 1..fnOut.totalDays) => fnOut.slice = <<>>

\* C9 amended: the slice of day 0 and of every day above totalDays is empty;
\* the slice of a negative day -k is empty exactly when the corpus has at
\* most 100 * k records.
C9_OutsideDayEmptyAmended ==
  fnOut.applied =>
    /\ (fnArg.day = 0 \/ fnArg.day > fnOut.totalDays) => fnOut.slice = <<>>
    /\ fnArg.day < 0 =>
         (fnOut.slice = <<>> <=> fnArg.n <= 100 * (-fnArg.day))

\* C9 witness: day 0 of a corpus of 250 records has been sliced.
C9_Witness ==
  fnOut.applied /\ fnArg.n = 250 /\ fnArg.day = 0 /\ fnOut.slice = <<>>

\* C10: at the last position, or with an empty active set, the next handler
\* changes nothing of the session; at position 0 the prev handler changes
\* nothing; in all three versions.
C10_BoundaryNoOp ==
  /\ (currentIndex = Len(currentWords) - 1 \/ Len(currentWords) = 0) =>
       ~ENABLED (NextHandler /\ session' # session)
  /\ currentIndex = 0 =>
       ~ENABLED (PrevHandler /\ session' # session)

\* C10 witness: the last position of an active set of two or more words.
C10_Witness ==
  /\ Ready /\ viewMode = "card" /\ pendingIndex = Null
  /\ Len(currentWords) >= 2 /\ currentIndex = Len(currentWords) - 1

\* C11: addToConfusing is idempotent under equality of records: when the
\* current word equals a record of the confusing set (the same row, or a
\* repeated row of the corpus) the handler leaves the set and the saved
\* entry as they are; when it equals none, the handler appends it at the end
\* and saves the new list.
C11_AddIdempotent ==
  HasCurrentWord =>
    IF \E i \in 1..Len(confusingWords) : confusingWords[i] = currentWord
    THEN ~ENABLED (addToConfusing /\ conf' # conf)
    ELSE ~ENABLED (addToConfusing
                     /\ ~(/\ confusingWords' = confusingWords \o <<currentWord>>
                          /\ storage' = Stringify(confusingWords')))

\* C11 witness: record 1 was added to the empty set from day 1, and the
\* card now shows its repetition (the third row) with the add button there.
C11_Witness ==
  /\ CardView /\ ~showConfusing /\ words = RepeatingCorpus
  /\ confusingWords = <<1>> /\ storage = Stringify(<<1>>)
  /\ HasCurrentWord /\ currentWord = 1
  /\ (currentDay - 1) * Page + currentIndex = 2

\* Two positions of the list hold equal records.
HasEqualRecords(list) ==
  \E i, j \in 1..Len(list) : i # j /\ list[i] = list[j]

\* C12: when the saved confusing set holds no two equal records, the
\* confusing set holds no two equal records in any reachable state, also
\* over a corpus with a repeated row.
C12_NoEqualRecords == ~HasEqualRecords(confusingWords)

\* C12 witness: two of the three saved records were removed, record 1 was
\* added from the corpus, and the card shows the repetition of record 1 with
\* the add button there.
C12_Witness ==
  /\ CardView /\ ~showConfusing /\ words = RepeatingCorpus
  /\ confusingWords = <<3, 1>>
  /\ HasCurrentWord /\ currentWord = 1
  /\ (currentDay - 1) * Page + currentIndex = 2

\* The position expected after a removal that left newLength records.
ClampedIndex(newLength) ==
  IF currentIndex >= newLength
  THEN (IF newLength = 0 THEN 0 ELSE newLength - 1)
  ELSE currentIndex

\* C13: wherever the remove button is shown, removeFromConfusing leaves
\* currentIndex at newLength - 1 when it was >= the new length (at 0 when the
\* set became empty), and leaves it unchanged otherwise.
C13_RemoveClamps ==
  (CardView /\ showConfusing) =>
    ~ENABLED (removeFromConfusing
                /\ currentIndex' # ClampedIndex(Len(confusingWords')))

\* C13 witness: three confusing records, the card at the last of them, and
\* removing it puts the card at position 1.
C13_Witness ==
  /\ CardView /\ showConfusing
  /\ Len(confusingWords) = 3 /\ currentIndex = 2
  /\ ENABLED (removeFromConfusing /\ currentIndex' = 1 /\ Len(confusingWords') = 2)

\* C14: the saved entry is the serialization of the confusing set in memory
\* (same records, same order) after every add and remove, so that a session
\* mounted on it starts with an equal set; before the first write the entry
\* may be absent, and the set is then empty.
C14_SavedIsMemory ==
  /\ storage = Stringify(confusingWords)
       \/ (storage = NoEntry /\ confusingWords = <<>>)
  /\ ParseSaved(storage) = confusingWords

\* C14 witness: the last of three saved records was removed in confusing
\* mode, and the entry holds the two that are left, in their order.
C14_Witness ==
  /\ Ready /\ words = RepeatingCorpus
  /\ confusingWords = <<2, 1>> /\ storage = Stringify(<<2, 1>>)
  /\ showConfusing /\ currentIndex = 1 /\ CardView

\* C15: wherever the day select is enabled, changeDay(d) for a day d it
\* offers ends with currentDay = d, currentIndex = 0, the card unflipped and
\* no hidden answers, and with the view mode, the direction, the
\* confusing-mode flag, the confusing set (and its saved entry) and
\* pendingIndex as they were.
C15_ChangeDayFrame ==
  \A d \in DayOptions :
    ~ENABLED (changeDay(d)
                /\ ~(/\ currentDay' = d
                     /\ currentIndex' = 0
                     /\ isFlipped' = FALSE
                     /\ hiddenAnswers' = {}
                     /\ UNCHANGED <<viewMode, mode, showConfusing,
                                    confusingWords, storage, pendingIndex>>))

\* C15 witness: another day can be selected while the position is 1, the
\* card is flipped, an answer is hidden, the list is shown in the direction
\* en-to-ko and the confusing set is not empty.
C15_Witness ==
  /\ DayOptions # {}
  /\ currentIndex = 1 /\ isFlipped /\ hiddenAnswers # {}
  /\ viewMode = "list" /\ mode = "en-to-ko" /\ confusingWords # <<>>

\* C16: no step taken in confusing mode, and no step that enters or leaves
\* it, changes currentDay; so leaving confusing mode returns to the day
\* from which it was entered.
C16_DayFixedInConfusingMode ==
  [][(showConfusing \/ showConfusing') => currentDay' = currentDay]_vars

\* C16 witness: confusing mode was entered from day 2 of a corpus of more
\* than one day.
C16_Witness ==
  Ready /\ showConfusing /\ currentDay = 2 /\ totalDays >= 2

\* C17: wherever the confusing-mode button is shown, toggleConfusingMode
\* negates showConfusing and ends with currentIndex = 0 and the card
\* unflipped.  The state after a toggle is again such a state, so a second
\* toggle gives back the first value of showConfusing, with currentIndex = 0.
C17_ToggleConfusingMode ==
  Ready =>
    ~ENABLED (toggleConfusingMode
                /\ ~(/\ showConfusing' = ~showConfusing
                     /\ currentIndex' = 0
                     /\ isFlipped' = FALSE))

\* C17 witness: in confusing mode, at position 1 with the card flipped; the
\* mode has been toggled once and the next toggle has a position to reset.
C17_Witness ==
  Ready /\ showConfusing /\ currentIndex = 1 /\ isFlipped

\* C18: a click on the view-mode button, with the render that follows it,
\* switches viewMode between card and list and leaves currentIndex,
\* currentDay, isFlipped, the confusing set and both cached orders of the
\* day (the ordered and the shuffled slice) unchanged.
C18_ToggleViewModeFrame ==
  ~ENABLED (ClickViewMode
              /\ ~(/\ viewMode' # viewMode
                   /\ viewMode' \in {"card", "list"}
                   /\ UNCHANGED <<currentIndex, currentDay, isFlipped,
                                  confusingWords, daySlices>>))

\* C18 witness: the cache version shows the list after a switch from the
\* card, at position 1 with the card flipped, and the shuffled order of the
\* day differs from the ordered one.
C18_Witness ==
  /\ Ready /\ variant = "cache" /\ viewMode = "list"
  /\ currentIndex = 1 /\ isFlipped /\ confusingWords # <<>>
  /\ daySlices.shuffled # daySlices.ordered

\* C19: a click on the direction button, with the render that follows it,
\* switches mode between ko-to-en and en-to-ko and changes nothing else:
\* not currentIndex, currentDay, isFlipped, pendingIndex, the view mode, the
\* active word set or the shuffled order.  With two directions, a second
\* click gives back the first.
C19_ToggleDirectionFrame ==
  ~ENABLED (ClickDirection
              /\ ~(/\ mode' # mode
                   /\ mode' \in {"ko-to-en", "en-to-ko"}
                   /\ currentWords' = currentWords
                   /\ UNCHANGED <<data, nav, sel, viewMode, conf, daySlices,
                                  inFlight, listening>>))

\* C19 witness: the direction is en-to-ko (switched once) while a gated
\* advance is pending on the flipped card.
C19_Witness ==
  Ready /\ mode = "en-to-ko" /\ isFlipped /\ pendingIndex # Null /\ inFlight

\* C20: in the cache version the active word set is the confusing set in
\* confusing mode, whatever the view mode; otherwise it is, in list view,
\* the slice of the corpus for the current day in file order and, in card
\* view, the cached shuffle of that slice.  It is a function of
\* showConfusing, viewMode, the confusing set, the corpus, the current day
\* and the shuffle drawn for it.
C20_ActiveWordSet ==
  variant = "cache" =>
    LET ordered == DaySliceOf(words, currentDay, Page)
    IN  /\ daySlices.ordered = ordered
        /\ daySlices.shuffled \in shuffleArray(ordered)
        /\ currentWords = IF showConfusing THEN confusingWords
                          ELSE IF viewMode = "card" THEN daySlices.shuffled
                          ELSE ordered

\* C20 witness: day 2 in card view, after a day change; the confusing set
\* is not empty and is not the day's slice.
C20_Witness ==
  /\ Ready /\ variant = "cache" /\ ~showConfusing /\ viewMode = "card"
  /\ currentDay = 2 /\ Len(currentWords) > 0
  /\ confusingWords # <<>> /\ confusingWords # currentWords

\* C21: wherever the card can be flipped, with or without an index pending,
\* flipCard negates isFlipped and changes nothing else of the session: not
\* currentIndex, and not pendingIndex, so it never makes an index pending.
\* Two flips in a row therefore give back the session they started from.
C21_FlipFrame ==
  CardView =>
    ~ENABLED (flipCard
                /\ ~(/\ isFlipped' = ~isFlipped
                     /\ UNCHANGED <<currentIndex, pendingIndex, sel, pres, conf>>))

\* C21 witness: the gated version with an index pending, its transition
\* running and the card turned back to the front, as a flip during the
\* transition leaves it.
C21_Witness ==
  /\ variant = "gated" /\ CardView /\ pendingIndex # Null /\ inFlight
  /\ ~isFlipped /\ currentIndex = 0 /\ ~showConfusing /\ currentDay = 1

\* The record on the card: the active word set at currentIndex, if any.
Displayed == IF HasCurrentWord THEN <<currentWord>> ELSE <<>>

\* C22: in the gated version, from the step that accepts an advance to the
\* step that handles its transitionend, the record on the card stays the one
\* it was: no step taken while an index is pending, and leaving it pending,
\* changes the displayed record.
C22_DisplayedFixedWhilePending ==
  [][(variant = "gated" /\ pendingIndex # Null /\ pendingIndex' # Null) =>
       Displayed' = Displayed]_vars

\* C23: the load ends, once: loading is eventually over; after that the
\* corpus, the day count, the error and the loading flag never change again
\* (no retry); a session with an error has no word set; and no step leaves
\* the error screen.
C23_LoadOneShot ==
  /\ <>(~isLoading)
  /\ [](~isLoading => (error = "" \/ words = <<>>))
  /\ [][~isLoading => UNCHANGED <<isLoading, words, totalDays, error>>]_vars
  /\ [][(~isLoading /\ error # "") => UNCHANGED vars]_vars

\* C23 witness: the fetch was rejected and the error screen is shown.
C23_Witness ==
  fnArg.status = "rejected" /\ ~isLoading /\ error # "" /\ words = <<>>

\* C24: when the fetch of the word file ends with a not-found response or
\* with a rejected promise, the session, once loading is over, shows the
\* error screen and has no word set made from that response.
C24_MissingFileIsError ==
  (fnArg.status \in {"notFound", "rejected"} /\ ~isLoading) =>
    (error # "" /\ words = <<>>)

\* A text without a blank at either end.
IsTrimmed(str) == str = <<>> \/ (str[1] # " " /\ str[Len(str)] # " ")

\* A value that counts as empty: null or the empty string.
IsEmptyCell(cell) == cell = NullCell \/ cell = TextCell(<<>>)

\* C25: in the cleaned word set every key and every string value is without
\* leading and trailing blanks, and no record has all its values empty; so
\* a row of blank-only cells is not in the word set.
C25_CleanedRecords ==
  fnOut.applied =>
    \A i \in 1..Len(fnOut.cleaned) :
      LET rec == fnOut.cleaned[i]
      IN  /\ \A key \in DOMAIN rec :
               /\ IsTrimmed(key)
               /\ rec[key].t = "string" => IsTrimmed(rec[key].v)
          /\ \E key \in DOMAIN rec : ~IsEmptyCell(rec[key])

\* How many positions of the list hold the record.
Occurrences(list, x) == Cardinality({i \in 1..Len(list) : list[i] = x})

RECURSIVE Factorial(_)
Factorial(n) == IF n <= 1 THEN 1 ELSE n * Factorial(n - 1)

\* C26: shuffleArray returns an array of the length of its input that holds
\* every record as often as the input does; and on n distinct records no
\* other sequence of draws gives the same order, while there are n!
\* sequences of draws: draws to orders is a bijection onto the n!
\* permutations, so uniform draws put every record at every position
\* equally often.
C26_ShuffleIsBijection ==
  fnOut.applied =>
    LET arr == fnArg.arr
        n   == Len(arr)
    IN  /\ Len(fnOut.out) = n
        /\ \A i \in 1..n : Occurrences(fnOut.out, arr[i]) = Occurrences(arr, arr[i])
        /\ fnOut.out \in shuffleArray(arr)
        /\ arr = Corpus(n) =>
             /\ \A d \in Draws(n) :
                  ShuffleWith(arr, d) = fnOut.out => d = fnArg.draws
             /\ Cardinality(Draws(n)) = Factorial(n)

\* C26 witness: three distinct records were shuffled into an order that
\* moves every one of them.
C26_Witness ==
  fnOut.applied /\ fnArg.arr = <<1, 2, 3>> /\ fnOut.out = <<3, 1, 2>>

\* C27: in the gated version, with transitionend delivered for every
\* transition of the card, a pending index is always followed by a state
\* with no index pending, whatever the user does or does not do afterwards.
C27_PendingIsCommitted ==
  (variant = "gated" /\ pendingIndex # Null) ~> (pendingIndex = Null)

\* The card was flipped by hand, its transition ended, and an advance was
\* then accepted: no transition runs that could commit it.
StalledAdvance ==
  /\ variant = "gated" /\ CardMounted /\ isFlipped
  /\ pendingIndex # Null /\ ~inFlight /\ listening

\* C28: in the cache version the cached slices (ordered and shuffled) are
\* recomputed only by a step that changes the corpus or the current day:
\* no step that keeps both (next, prev, flip, add, remove, the confusing-mode
\* toggle, the hidden-answer toggles, the view and direction switches)
\* changes them, and neither does changeDay called with the current day.
\* So confusing mode is left with the shuffled order it was entered with.
C28_RecomputeOnlyOnDayOrCorpus ==
  variant = "cache" =>
    /\ ~ENABLED (Next /\ words' = words /\ currentDay' = currentDay
                   /\ daySlices' # daySlices)
    /\ Ready => ~ENABLED (changeDay(currentDay) /\ UNCHANGED data
                            /\ Rendered(inFlight) /\ daySlices' # daySlices)

\* C28 witness: confusing mode over a set of one record, entered from a day
\* whose cached shuffle differs from the file order.
C28_Witness ==
  /\ variant = "cache" /\ Ready /\ showConfusing
  /\ Len(confusingWords) = 1 /\ storage = Stringify(confusingWords)
  /\ daySlices.shuffled # daySlices.ordered

\* The list is the other list with one record put at its end, or with one
\* record taken out, the rest in place.
GrownOrShrunk(new, old) ==
  \/ \E x \in {new[i] : i \in 1..Len(new)} : new = Append(old, x)
  \/ \E k \in 1..Len(old) : new = SubSeq(old, 1, k - 1) \o SubSeq(old, k + 1, Len(old))

\* C29: in the cache version, in every reachable state, the list view of a
\* day shows the records of the corpus at that day's positions, in corpus
\* order; the corpus is in file order; the confusing set is what both
\* views show in confusing mode, and it changes only by a record appended
\* at its end or taken out with the others kept in order.
C29_OriginalOrderKept ==
  variant = "cache" =>
    LET first == (currentDay - 1) * Page
        count == Max(Min(Len(words) - first, Page), 0)
    IN  /\ daySlices.ordered = [i \in 1..count |-> words[first + i]]
        /\ (~showConfusing /\ viewMode = "list") => currentWords = daySlices.ordered
        /\ words = Corpus(Len(words))
        /\ showConfusing => currentWords = confusingWords
        /\ ~ENABLED (Next /\ confusingWords' # confusingWords
                       /\ ~GrownOrShrunk(confusingWords', confusingWords))

\* C29 witness: the list view of day 1, whose cached shuffle differs from
\* the file order, with a confusing set saved in another order than the
\* corpus has.
C29_Witness ==
  /\ variant = "cache" /\ Ready /\ viewMode = "list" /\ ~showConfusing
  /\ currentDay = 1 /\ daySlices.shuffled # daySlices.ordered
  /\ confusingWords = <<2, 1>>

\* C30: wherever the remove button is shown, removeFromConfusing with
\* currentIndex inside the confusing set takes out exactly the record at
\* that position (putting it back there gives the old set, so the others
\* keep their order and the set is one shorter); with currentIndex outside
\* the set, or an empty set, it leaves the records as they are; in either
\* case the card ends unflipped.
C30_RemoveAtCurrentIndex ==
  (CardView /\ showConfusing) =>
    ~ENABLED (removeFromConfusing
                /\ ~(/\ isFlipped' = FALSE
                     /\ IF 0 <= currentIndex /\ currentIndex < Len(confusingWords)
                        THEN confusingWords =
                               SubSeq(confusingWords', 1, currentIndex)
                                 \o <<confusingWords[currentIndex + 1]>>
                                 \o SubSeq(confusingWords', currentIndex + 1,
                                           Len(confusingWords'))
                        ELSE confusingWords' = confusingWords))

\* C30 witness: three confusing records with the flipped card at the middle
\* one; removing it leaves the first and the last.
C30_Witness ==
  /\ CardView /\ showConfusing /\ isFlipped
  /\ confusingWords = <<2, 1, 3>> /\ currentIndex = 1
  /\ ENABLED (removeFromConfusing /\ confusingWords' = <<2, 3>>)

\* The remove button is shown while currentIndex is outside a non-empty
\* confusing set: the gated version committed a stale index.
RemoveOutOfRange ==
  /\ CardView /\ showConfusing
  /\ Len(confusingWords) > 0 /\ currentIndex >= Len(confusingWords)

\* C31: in the gated version a transitionend that arrives while no index is
\* pending (after a flip by hand, or after the flip back that follows a
\* commit) changes none of currentIndex, isFlipped and pendingIndex, whether
\* or not the listener is attached.
C31_TransitionEndWithoutPending ==
  (variant = "gated" /\ pendingIndex = Null) =>
    /\ ~ENABLED (TransitionEnd
                   /\ <<currentIndex, isFlipped, pendingIndex>>'
                        # <<currentIndex, isFlipped, pendingIndex>>)
    /\ ~ENABLED (handleTransitionEnd
                   /\ <<currentIndex, isFlipped, pendingIndex>>'
                        # <<currentIndex, isFlipped, pendingIndex>>)

\* C31 witness: an advance was committed and the card was then flipped by
\* hand; the flip's transition runs, the listener is attached and no index
\* is pending.
C31_Witness ==
  /\ variant = "gated" /\ listening /\ inFlight
  /\ pendingIndex = Null /\ currentIndex = 1 /\ isFlipped

\* C32: in every reachable state every index of hiddenAnswers is a position
\* of the active word set, so that hiddenAnswers has the size of the active
\* set exactly when every answer of the list is hidden.
C32_HiddenAnswersValid ==
  /\ \A i \in hiddenAnswers : 0 <= i /\ i < Len(currentWords)
  /\ Cardinality(hiddenAnswers) = Len(currentWords)
       <=> \A i \in 0..(Len(currentWords) - 1) : i \in hiddenAnswers


(***************************************************************************)
(* The session with a durable store whose setItem may throw (quota         *)
(* exceeded, storage disabled).  The exception leaves the handler at the   *)
(* call of setItem: the state updates queued before it are applied, the    *)
(* statements after it are not run, and nothing catches it.                *)
(***************************************************************************)
\* addToConfusing, localStorage.setItem throws: setConfusingWords(updated)
\* is already queued and setItem is the last statement.
addToConfusingThrows ==
  IF ~HasCurrentWord \/ Some(confusingWords, currentWord)
  THEN UNCHANGED session
  ELSE /\ confusingWords' = Append(confusingWords, currentWord)
       /\ UNCHANGED <<storage, nav, sel, pres>>

\* removeFromConfusing, localStorage.setItem throws: setConfusingWords(updated)
\* is already queued, setCurrentIndex and setIsFlipped(false) are not reached.
removeFromConfusingThrows ==
  /\ confusingWords' = RemoveAt(confusingWords, currentIndex)
  /\ UNCHANGED <<storage, nav, sel, pres>>

ClickAddThrows ==
  /\ CardView /\ ~showConfusing
  /\ Len(confusingWords) < MaxConfusing
  /\ addToConfusingThrows
  /\ UNCHANGED data
  /\ Rendered(inFlight)

ClickRemoveThrows ==
  /\ CardView /\ showConfusing
  /\ removeFromConfusingThrows
  /\ UNCHANGED data
  /\ Rendered(inFlight)

NextStorageFault ==
  \/ \E n \in 0..MaxWords : LoadComplete(n)
  \/ LoadFailed
  \/ ClickPrev
  \/ ClickNext
  \/ ClickFlip
  \/ ClickAdd
  \/ ClickAddThrows
  \/ ClickRemove
  \/ ClickRemoveThrows
  \/ \E day \in 1..(MaxWords + 1) : SelectDay(day)
  \/ ClickConfusingMode
  \/ ClickViewMode
  \/ ClickDirection
  \/ \E idx \in 0..(MaxWords + MaxConfusing) : ClickAnswer(idx)
  \/ ClickAllAnswers
  \/ TransitionEnd

SpecStorageFault == Init /\ [][NextStorageFault]_vars

\* C33: with a store whose writes may fail during add and remove, the cache
\* version never enters the error state once the corpus is loaded, and a
\* non-empty active word set always has currentIndex among its positions.
C33_WriteFailureKeepsIndex ==
  (variant = "cache" /\ ~isLoading /\ words # <<>>) =>
    /\ error = ""
    /\ IndexInRange

(***************************************************************************)
(* The session from construction, with the mount effect that reads the     *)
(* saved confusing set as a step of its own.  fnOut.applied records that   *)
(* the effect has run: its dependency list is [], so it runs after the     *)
(* first render and never again, and it runs before the fetch can answer   *)
(* and before any control is on the page.                                  *)
(***************************************************************************)
\* localStorage.getItem gave '': a falsy string, skipped by if (saved).
EmptyEntry == [kind |-> "empty", val |-> <<>>]

\* localStorage.getItem gave a text on which JSON.parse throws.
Unparseable == [kind |-> "text", val |-> <<>>]

SavedStartup == {NoEntry, EmptyEntry, Unparseable, Stringify(<<2, 1>>)}

\* The state after the useState calls, before any effect.
Constructed(v, saved) ==
  /\ variant = v
  /\ words = <<>>
  /\ totalDays = 0
  /\ isLoading = TRUE
  /\ error = ""
  /\ currentDay = 1
  /\ currentIndex = 0
  /\ isFlipped = FALSE
  /\ mode = "ko-to-en"
  /\ confusingWords = <<>>
  /\ showConfusing = FALSE
  /\ viewMode = "card"
  /\ hiddenAnswers = {}
  /\ pendingIndex = Null
  /\ daySlices = NoSlices
  /\ storage = saved
  /\ inFlight = FALSE
  /\ listening = FALSE
  /\ acceptIndex = Null

InitStartup ==
  /\ \E v \in Variants, saved \in SavedStartup : Constructed(v, saved)
  /\ fnArg = NoArg
  /\ fnOut = NoOut

\* A mount effect whose catch branch enters the error state.
ReadSavedStrict ==
  /\ ~fnOut.applied
  /\ fnOut' = [fnOut EXCEPT !.applied = TRUE]
  /\ confusingWords' = ParseSaved(storage)
  /\ IF storage.kind = "text"
     THEN error' = "confusingWords JSON error" /\ isLoading' = FALSE
     ELSE UNCHANGED <<error, isLoading>>
  /\ UNCHANGED <<variant, words, totalDays, nav, sel, pres, storage,
                 daySlices, inFlight, listening, fnArg>>

\* useEffect(() => { const saved = localStorage.getItem('confusingWords');
\* if (saved) { try { setConfusingWords(JSON.parse(saved)) } catch (e) {
\* console.error(..) } } }, [])
ReadSaved ==
  /\ ~fnOut.applied
  /\ fnOut' = [fnOut EXCEPT !.applied = TRUE]
  /\ confusingWords' = ParseSaved(storage)
  /\ UNCHANGED <<variant, data, nav, sel, pres, storage,
                 daySlices, inFlight, listening, fnArg>>

NextStartup ==
  \/ ReadSaved
  \/ fnOut.applied /\ Next

SpecStartup == InitStartup /\ [][NextStartup]_vars

\* C34: the saved entry is read once, by the first step of the session; when
\* the entry is absent, empty or not parseable, the read leaves the confusing
\* set empty, the error text empty and the load running, the read is not
\* repeated, and the load can still complete into the ready state.
C34_UnreadableEntryIsEmptySet ==
  /\ ~fnOut.applied => ENABLED ReadSaved
  /\ fnOut.applied => ~ENABLED ReadSaved
  /\ storage.kind \in {"absent", "empty", "text"} =>
       /\ ~fnOut.applied =>
            ~ENABLED (ReadSaved /\ ~(confusingWords' = <<>> /\ error' = "" /\ isLoading'))
       /\ fnOut.applied =>
            /\ confusingWords = <<>>
            /\ isLoading =>
                 /\ error = ""
                 /\ ENABLED (LoadComplete(MaxWords) /\ Ready')

\* C34 witness: the entry was not parseable, the read is done, the corpus is
\* loaded and the session is ready with an empty confusing set.
C34_Witness ==
  /\ fnOut.applied /\ storage = Unparseable
  /\ Ready /\ words # <<>> /\ confusingWords = <<>>

\* C35: in every reachable state of the cache version that shows the card
\* controls, the next control is disabled whenever nextWord would change
\* nothing (currentIndex is the last position, or the active word set is
\* empty), and the previous control is disabled whenever prevWord would
\* change nothing (currentIndex is 0).
C35_ControlsDisabledAtBoundaries ==
  (variant = "cache" /\ CardView) =>
    /\ ~ENABLED (nextWord /\ nav' # nav) => ~NextEnabled
    /\ ~ENABLED (prevWord /\ nav' # nav) => ~PrevEnabled
=============================================================================
